---------------------------- MODULE Spec2Model ----------------------------
(***************************************************************************)
(* cc-jukebox: the DFPWM-style encoder and the WAV reader of              *)
(* encode_song.py, and the track conversion and the manifest (catalog)     *)
(* upsert of convert_mp3.py.                                               *)
(*                                                                         *)
(* The state machines of this module:                                      *)
(*   SpecEnc  one call encode_dfpwm(pcm_samples): one action per loop      *)
(*            iteration (lines 22-62) and one for the final flush and      *)
(*            return (lines 64-67).                                        *)
(*   SpecCalls  successive encode_dfpwm calls in one process.              *)
(*   SpecCat / SpecCatAny  a sequence of update_manifest calls against the *)
(*            file manifest.json, each call one atomic action.             *)
(*   SpecProc  successive process_file calls: decode, read, encode, save,  *)
(*            update the manifest.                                         *)
(*   SpecRace  two update_manifest runs in two processes.                  *)
(*   SpecMain  encode_song.main: the frame loop and the resampler.         *)
(***************************************************************************)
EXTENDS Integers, Sequences, FiniteSets, TLC

VARIABLES
    \* ---- encode_dfpwm ----
    pcm_samples,    \* the argument: the sample sequence being encoded
    i,              \* number of samples the for loop has consumed
    charge,         \* line 14
    strength,       \* line 15
    previous_bit,   \* line 16
    out_bytes,      \* line 18
    current_byte,   \* line 19
    bit_idx,        \* line 20
    emitted,        \* history of the local `bit` (line 24), one per iteration
    pc,             \* "loop" | "done" (returned)
    \* ---- update_manifest ----
    platform,       \* "posix" | "nt": which os.path the interpreter uses
    manifest,       \* the content of the file manifest.json
    prev_manifest,  \* manifest.json as it was before the last call
    calls,          \* history: one record per update_manifest call made
    \* ---- process_file ----
    present,        \* the input audio files that exist
    wavs,           \* the temporary decoded WAV files: path -> content
    dfpwms,         \* the encoded .dfpwm files: path -> content
    mp3_filename,   \* the argument of the running (or last) call
    ppc,            \* position in process_file: "idle" between calls
    decoded,        \* what the external decoder did in the call
    frames,         \* line 56
    dfpwm_data,     \* line 76
    saved,          \* the running call has written its .dfpwm file
    result,         \* how the last call ended
    start_manifest, \* manifest.json when the call started
    start_dfpwms,   \* the .dfpwm files when the call started
    tracks_run,     \* number of calls started so far
    \* ---- two concurrent update_manifest runs ----
    rargs,          \* run -> its arguments
    rpc,            \* run -> "load" | "open" | "dump" | "done"
    rdata,          \* run -> its local `data`
    routcome,       \* run -> "none" | "updated" | "already" | "raised"
    roverlap,       \* run -> another run wrote while it had the file open
    rlog,           \* the steps taken, in order: <<run, step>>
    race_start,     \* manifest.json before the two runs
    \* ---- encode_song.main ----
    nchannels,      \* line 90
    sampwidth,      \* line 90, bytes per sample
    framerate,      \* line 90
    wav_frames,     \* line 95: the bytes of the audio data
    frame_i,        \* the `i` of the loop of line 115
    main_samples,   \* the `samples` of line 98
    target_rate,    \* lines 78-80
    ratio,          \* line 129, a float
    res_idx,        \* the `idx` of line 131, a float
    new_samples,    \* line 130
    mpc,            \* position in main
    \* ---- successive encode_dfpwm calls ----
    enc_log         \* one record per earlier call: its argument and result

encVars == <<pcm_samples, i, charge, strength, previous_bit, out_bytes,
             current_byte, bit_idx, emitted, pc>>
catVars == <<platform, manifest, prev_manifest, calls>>
procVars == <<present, wavs, dfpwms, mp3_filename, ppc, decoded, frames,
              dfpwm_data,
              saved, result, start_manifest, start_dfpwms, tracks_run>>
raceVars == <<rargs, rpc, rdata, routcome, roverlap, rlog, race_start>>
mainVars == <<nchannels, sampwidth, framerate, wav_frames, frame_i,
              main_samples, target_rate, ratio, res_idx, new_samples, mpc>>
callVars == <<enc_log>>
vars == <<encVars, catVars, procVars, raceVars, mainVars, callVars>>
notEncVars == <<catVars, procVars, raceVars, mainVars, callVars>>
notCatVars == <<encVars, procVars, raceVars, mainVars, callVars>>
notProcCatVars == <<encVars, raceVars, mainVars, callVars>>
notRaceCatVars == <<encVars, procVars, mainVars, callVars>>
notMainVars == <<encVars, catVars, procVars, raceVars, callVars>>
notEncCallVars == <<catVars, procVars, raceVars, mainVars>>

---------------------------------------------------------------------------
(* Bounds of the model.                                                    *)

\* longest input drawn exhaustively over SampleVals
MaxShort == 6
\* longest input drawn exhaustively over BitVals
MaxBitLen == 9
\* longest constant-valued input
MaxRun == 66
\* number of update_manifest calls in a row
MaxRuns == 3
\* longest songs list manifest.json starts with
MaxInit == 2
\* number of process_file calls the caller's loop makes
MaxTracks == 2

---------------------------------------------------------------------------
(* encode_dfpwm: program constants.                                        *)

ChargeMax == 127
ChargeMin == -128
StrengthMax == 63
StrengthMin == 0
ByteBits == 8

RECURSIVE Pow2(_)
Pow2(n) == IF n = 0 THEN 1 ELSE 2 * Pow2(n - 1)

\* bit = (sample > charge)
Predict(sample, c) == sample > c

\* if bit == previous_bit: strength += 1 else: strength -= 1
StrengthStepNoDecrement(s, bit, prev) == IF bit = prev THEN s + 1 ELSE s
StrengthStep(s, bit, prev) == IF bit = prev THEN s + 1 ELSE s - 1

\* if strength < 0: strength = 0 ; if strength > 63: strength = 63
ClampStrengthNoUpper(s) == IF s < StrengthMin THEN StrengthMin ELSE s
ClampStrength(s) ==
    LET s1 == IF s < StrengthMin THEN StrengthMin ELSE s
    IN  IF s1 > StrengthMax THEN StrengthMax ELSE s1

\* change = (strength << 2) + 2
\* (ChangeUnusedStep is the `step` of line 37, computed and never applied)
ChangeUnusedStep(s) == s * 4 + (IF s < 50 THEN 1 ELSE 0)
Change(s) == s * 4 + 2

\* if bit: charge += change else: charge -= change
ApplyChange(c, bit, change) == IF bit THEN c + change ELSE c - change

\* if charge > 127: charge = 127 ; if charge < -128: charge = -128
ClampChargeNoLower(c) == IF c > ChargeMax THEN ChargeMax ELSE c
ClampCharge(c) ==
    LET c1 == IF c > ChargeMax THEN ChargeMax ELSE c
    IN  IF c1 < ChargeMin THEN ChargeMin ELSE c1

\* current_byte |= (1 << bit_idx), applied only when bit is set
BitOr(byte, k) ==
    IF (byte \div Pow2(k)) % 2 = 1 THEN byte ELSE byte + Pow2(k)
PackBitMsbFirst(byte, bit, k) ==
    IF bit THEN BitOr(byte, (ByteBits - 1) - k) ELSE byte
PackBit(byte, bit, k) == IF bit THEN BitOr(byte, k) ELSE byte

\* if bit_idx > 0: out_bytes.append(current_byte)
FlushAlways(bytes, byte, k) == Append(bytes, byte)
Flush(bytes, byte, k) == IF k > 0 THEN Append(bytes, byte) ELSE bytes

---------------------------------------------------------------------------
(* Inputs of encode_dfpwm.                                                 *)

SampleVals == {-100, 0, 50, 100}
BitVals == {-128, 127}
RunVals == {-128, 0, 127}

SeqsUpTo(S, n) == UNION {[1..k -> S] : k \in 0..n}

EncInputs ==
    SeqsUpTo(SampleVals, MaxShort)
      \cup SeqsUpTo(BitVals, MaxBitLen)
      \cup {[k \in 1..n |-> v] : n \in 0..MaxRun, v \in RunVals}

EncFresh ==
    /\ i = 0
    /\ charge = 0
    /\ strength = 0
    /\ previous_bit = FALSE
    /\ out_bytes = <<>>
    /\ current_byte = 0
    /\ bit_idx = 0
    /\ emitted = <<>>
    /\ pc = "loop"

\* one iteration of `for sample in pcm_samples` (lines 22-62)
EncodeSample ==
    /\ pc = "loop"
    /\ i < Len(pcm_samples)
    /\ LET sample == pcm_samples[i + 1]
           bit == Predict(sample, charge)
           s2 == ClampStrength(StrengthStep(strength, bit, previous_bit))
           c2 == ClampCharge(ApplyChange(charge, bit, Change(s2)))
           byte2 == PackBit(current_byte, bit, bit_idx)
       IN  /\ strength' = s2
           /\ charge' = c2
           /\ previous_bit' = bit
           /\ emitted' = Append(emitted, bit)
           /\ IF bit_idx + 1 = ByteBits
                THEN /\ out_bytes' = Append(out_bytes, byte2)
                     /\ current_byte' = 0
                     /\ bit_idx' = 0
                ELSE /\ out_bytes' = out_bytes
                     /\ current_byte' = byte2
                     /\ bit_idx' = bit_idx + 1
    /\ i' = i + 1
    /\ UNCHANGED <<pcm_samples, pc>>
    /\ UNCHANGED notEncVars

\* the loop is exhausted: flush the partial byte and return (lines 64-67)
EncodeReturn ==
    /\ pc = "loop"
    /\ i = Len(pcm_samples)
    /\ out_bytes' = Flush(out_bytes, current_byte, bit_idx)
    /\ pc' = "done"
    /\ UNCHANGED <<pcm_samples, i, charge, strength, previous_bit,
                   current_byte, bit_idx, emitted>>
    /\ UNCHANGED notEncVars

\* no process_file call has been made
ProcIdle ==
    /\ present = {}
    /\ wavs = <<>>
    /\ dfpwms = <<>>
    /\ mp3_filename = <<>>
    /\ ppc = "idle"
    /\ decoded = "none"
    /\ frames = <<>>
    /\ dfpwm_data = <<>>
    /\ saved = FALSE
    /\ result = "none"
    /\ start_manifest = [kind |-> "absent"]
    /\ start_dfpwms = <<>>
    /\ tracks_run = 0

\* no concurrent runs
RaceIdle ==
    /\ rargs = <<>>
    /\ rpc = <<>>
    /\ rdata = <<>>
    /\ routcome = <<>>
    /\ roverlap = <<>>
    /\ rlog = <<>>
    /\ race_start = [kind |-> "absent"]

\* the state machines that are not running
\* main is not running
MainIdle ==
    /\ nchannels = 1
    /\ sampwidth = 1
    /\ framerate = 48000
    /\ wav_frames = <<>>
    /\ frame_i = 0
    /\ main_samples = <<>>
    /\ target_rate = 48000
    /\ ratio = <<>>
    /\ res_idx = <<>>
    /\ new_samples = <<>>
    /\ mpc = "idle"

\* no encode_dfpwm call has returned before the running one
CallIdle == enc_log = <<>>

RestIdle == ProcIdle /\ RaceIdle /\ MainIdle /\ CallIdle

CatIdle ==
    /\ platform = "posix"
    /\ manifest = [kind |-> "absent"]
    /\ prev_manifest = [kind |-> "absent"]
    /\ calls = <<>>

InitEnc == pcm_samples \in EncInputs /\ EncFresh /\ CatIdle /\ RestIdle

NextEnc == EncodeSample \/ EncodeReturn

SpecEnc == InitEnc /\ [][NextEnc]_vars

---------------------------------------------------------------------------
(* Claims about encode_dfpwm, checked under SpecEnc.                       *)

BitAt(bytes, k) == (bytes[(k \div ByteBits) + 1] \div Pow2(k % ByteBits)) % 2

CeilDiv(n, d) == (n + d - 1) \div d

GoldenInput == <<0, 50, 100, 100, 100, -100>>
GoldenBits == <<FALSE, TRUE, TRUE, TRUE, TRUE, FALSE>>
GoldenCharge == <<-6, -4, 2, 12, 26, 16>>
GoldenStrength == <<1, 0, 1, 2, 3, 2>>

\* C1: for every input, after every per-sample update charge is in
\* [-128,127] and strength is in [0,63].
C1_ClampInvariant ==
    /\ charge \in -128..127
    /\ strength \in 0..63

\* C1 witness: a run long enough for both clamps to have acted: 65 samples
\* of -128 drive strength to its cap of 63 and charge to its floor of -128.
C1_Witness ==
    /\ i = 65
    /\ \A k \in 1..65 : pcm_samples[k] = -128
    /\ strength = 63
    /\ charge = -128

\* C2: each per-sample step does exactly this: bit = (sample > charge) on
\* the charge before the update; strength goes up by one when bit equals
\* previousBit and down by one otherwise, clamped to [0,63]; change is
\* 4*strength+2 of the updated strength; charge moves by change up (bit) or
\* down (not bit), clamped to [-128,127]; previousBit becomes bit; and bit
\* is the one bit emitted for the sample.
C2_StepRelation ==
    (i' = i + 1) =>
        LET sample == pcm_samples[i + 1]
            bit == sample > charge
            up == IF bit = previous_bit THEN strength + 1 ELSE strength - 1
            newStrength == IF up < 0 THEN 0 ELSE IF up > 63 THEN 63 ELSE up
            change == 4 * newStrength + 2
            moved == IF bit THEN charge + change ELSE charge - change
            newCharge == IF moved < -128 THEN -128
                         ELSE IF moved > 127 THEN 127 ELSE moved
        IN  /\ (sample = charge => ~bit)
            /\ strength' = newStrength
            /\ charge' = newCharge
            /\ previous_bit' = bit
            /\ emitted' = Append(emitted, bit)

C2_PerSampleStep == [][C2_StepRelation]_vars

\* C2 witness: the tie case has been stepped: the first sample 0 equals the
\* initial charge 0, the emitted bit is false and the state is (-6, 1, false).
C2_Witness ==
    /\ i = 1
    /\ pcm_samples[1] = 0
    /\ emitted = <<FALSE>>
    /\ charge = -6
    /\ strength = 1
    /\ previous_bit = FALSE

\* C3: unpacking the returned bytes LSB-first (stream bit k is bit k mod 8
\* of byte k div 8) reproduces the N emitted bits in order, and every bit
\* position beyond N in the final byte is 0.
C3_PackRoundTrip ==
    pc = "done" =>
        LET n == Len(emitted)
        IN  /\ Len(out_bytes) * ByteBits >= n
            /\ \A b \in 1..Len(out_bytes) : out_bytes[b] \in 0..255
            /\ \A k \in 0..(n - 1) :
                   (BitAt(out_bytes, k) = 1) = emitted[k + 1]
            /\ \A k \in n..(Len(out_bytes) * ByteBits - 1) :
                   BitAt(out_bytes, k) = 0

\* C3 witness: a returned 9-bit stream with set bits in both bytes and
\* seven padding positions in the last byte.
C3_Witness ==
    /\ pc = "done"
    /\ Len(emitted) = 9
    /\ Len(out_bytes) = 2
    /\ emitted[2] /\ ~emitted[3] /\ emitted[9]

\* C4: one bit is emitted per input sample, so the returned byte sequence
\* has length ceil(N/8) for N samples, N = 0 and silent input included; no
\* extra empty byte is appended when N is a multiple of 8.
C4_OutputLength ==
    /\ Len(emitted) = i
    /\ pc = "done" =>
           /\ Len(emitted) = Len(pcm_samples)
           /\ Len(out_bytes) = CeilDiv(Len(pcm_samples), ByteBits)

\* C4 witness: 16 silent samples returned as exactly 2 bytes.
C4_Witness ==
    /\ pc = "done"
    /\ Len(pcm_samples) = 16
    /\ \A k \in 1..16 : pcm_samples[k] = 0
    /\ Len(out_bytes) = 2

\* C5: encoding [0, 50, 100, 100, 100, -100] from (0, 0, false) emits the
\* bits false,true,true,true,true,false, passes through (charge,strength)
\* = (-6,1), (-4,0), (2,1), (12,2), (26,3), (16,2), and returns the single
\* byte 0x1E.
C5_GoldenTrace ==
    pcm_samples = GoldenInput =>
        /\ emitted = SubSeq(GoldenBits, 1, i)
        /\ i = 0 => (charge = 0 /\ strength = 0 /\ previous_bit = FALSE)
        /\ i > 0 => (charge = GoldenCharge[i] /\ strength = GoldenStrength[i])
        /\ pc = "done" => out_bytes = <<30>>

\* C5 witness: the golden input has been encoded to the end.
C5_Witness ==
    /\ pcm_samples = GoldenInput
    /\ pc = "done"
    /\ i = 6
    /\ out_bytes = <<30>>


---------------------------------------------------------------------------
(* update_manifest (convert_mp3.py lines 88-127).                          *)
(*                                                                         *)
(* A path or title is a sequence of one-character strings.  manifest.json  *)
(* is [kind |-> "absent"], [kind |-> "garbage"] (text json.load rejects)   *)
(* or [kind |-> "json", value |-> v] with v the value json.load returns;   *)
(* json.dump followed by json.load gives back the same value for the       *)
(* values that occur here (objects with string keys, lists, strings), so   *)
(* the file is kept as that value.                                         *)
(*   v          [t |-> "scalar"]     a number, true, false or null         *)
(*              [t |-> "string"]     a JSON string                         *)
(*              [t |-> "array"]      a JSON array                          *)
(*              [t |-> "object", hasSongs, songs, extra]                   *)
(*                 hasSongs: the key "songs" is present; songs: its value; *)
(*                 extra: other keys are present                           *)
(*   songs      [t |-> "list", items |-> <<item, ...>>] or, not a list,    *)
(*              [t |-> "scalar"], [t |-> "string"], [t |-> "object"]       *)
(*   item       [t |-> "entry", keys, title, file]   a JSON object with    *)
(*                 the keys named in keys, or [t |-> "other"], any other   *)
(*                 JSON value                                              *)

Sep == "/"
BackSlash == "\\"
Dot == "."

\* greatest k with p[k] in chars, 0 when there is none
LastIndexOf(p, chars) ==
    LET hits == {k \in DOMAIN p : p[k] \in chars}
    IN  IF hits = {} THEN 0 ELSE CHOOSE k \in hits : \A j \in hits : j <= k

\* os.path.basename: posixpath splits at "/", ntpath at "/" and "\"
Basename(os, p) ==
    LET seps == IF os = "nt" THEN {Sep, BackSlash} ELSE {Sep}
    IN  SubSeq(p, LastIndexOf(p, seps) + 1, Len(p))

\* s.rsplit('.', 1)[0]
RSplitDotHead(p) ==
    LET k == LastIndexOf(p, {Dot})
    IN  IF k = 0 THEN p ELSE SubSeq(p, 1, k - 1)

\* title = os.path.basename(input_title_path).rsplit('.', 1)[0]
Title(os, input_title_path) == RSplitDotHead(Basename(os, input_title_path))

\* file_entry = output_path.replace("\\", "/")
NormalizeIdentity(output_path) == output_path
Normalize(output_path) ==
    [k \in DOMAIN output_path |->
        IF output_path[k] = BackSlash THEN Sep ELSE output_path[k]]

EmptySongs == [t |-> "list", items |-> <<>>]
EmptyCatalog ==
    [t |-> "object", hasSongs |-> TRUE, songs |-> EmptySongs, extra |-> FALSE]

\* lines 98-105: the value bound to `data`; a missing file and a file that
\* json.load rejects (bare except) both give {"songs": []}
LoadManifest(m) ==
    IF m.kind = "json" THEN m.value ELSE EmptyCatalog

\* lines 107-108: `"songs" not in data` raises TypeError on a number, true,
\* false or null; on a string or an array the test is evaluated and then
\* either data["songs"] = [] (line 108) or data["songs"] (line 112) raises
\* TypeError.  Only an object gets past both.
EnsureSongs(data) ==
    IF data.t # "object" THEN [raised |-> TRUE, data |-> data]
    ELSE IF data.hasSongs THEN [raised |-> FALSE, data |-> data]
    ELSE [raised |-> FALSE,
          data |-> [data EXCEPT !.hasSongs = TRUE, !.songs = EmptySongs]]

\* song.get("file") == file_entry, for a song that is an object
MatchesNever(song, file_entry) == FALSE
Matches(song, file_entry) ==
    "file" \in song.keys /\ song.file = file_entry

\* lines 111-115: the scan from item k on: "found" (break), "absent" (loop
\* ran out) or "raised" (song.get on a value that is no object raises
\* AttributeError)
RECURSIVE ScanFrom(_, _, _)
ScanFrom(items, k, file_entry) ==
    IF k > Len(items) THEN "absent"
    ELSE IF items[k].t # "entry" THEN "raised"
    ELSE IF Matches(items[k], file_entry) THEN "found"
    ELSE ScanFrom(items, k + 1, file_entry)

\* line 112: iterating data["songs"].  A list is scanned; a number, true,
\* false or null is not iterable (TypeError); a non-empty string or object
\* yields strings, on which .get raises; an empty string or object passes
\* the loop and then has no .append (line 118).  All of these raise.
ScanSkipFirst(songs, file_entry) ==
    IF songs.t # "list" THEN "raised"
    ELSE ScanFrom(songs.items, 2, file_entry)
Scan(songs, file_entry) ==
    IF songs.t # "list" THEN "raised"
    ELSE ScanFrom(songs.items, 1, file_entry)

NewEntry(title, file_entry) ==
    [t |-> "entry", keys |-> {"title", "file"},
     title |-> title, file |-> file_entry]

\* lines 118-121: data["songs"].append({"title": ..., "file": ...})
AppendSongFront(data, title, file_entry) ==
    [data EXCEPT !.songs.items = <<NewEntry(title, file_entry)>> \o @]
AppendSong(data, title, file_entry) ==
    [data EXCEPT !.songs.items = Append(@, NewEntry(title, file_entry))]

\* the whole body: what the call does to manifest.json and how it ends
\*   "updated"  line 125, the file was rewritten (line 123-124)
\*   "already"  line 127, the file was left alone
\*   "raised"   an exception left update_manifest, the file was left alone
\* (UpdateDumpAlways: json.dump placed after the if/else, not inside it)
UpdateDumpAlways(m, title, file_entry) ==
    LET ensured == EnsureSongs(LoadManifest(m))
        found == IF ensured.raised THEN "raised"
                 ELSE Scan(ensured.data.songs, file_entry)
    IN  CASE found = "raised" ->
               [outcome |-> "raised", wrote |-> FALSE, manifest |-> m]
          [] found = "found" ->
               [outcome |-> "already", wrote |-> TRUE,
                manifest |-> [kind |-> "json", value |-> ensured.data]]
          [] found = "absent" ->
               [outcome |-> "updated", wrote |-> TRUE,
                manifest |-> [kind |-> "json",
                              value |-> AppendSong(ensured.data, title,
                                                   file_entry)]]
Update(m, title, file_entry) ==
    LET ensured == EnsureSongs(LoadManifest(m))
        found == IF ensured.raised THEN "raised"
                 ELSE Scan(ensured.data.songs, file_entry)
    IN  CASE found = "raised" ->
               [outcome |-> "raised", wrote |-> FALSE, manifest |-> m]
          [] found = "found" ->
               [outcome |-> "already", wrote |-> FALSE, manifest |-> m]
          [] found = "absent" ->
               [outcome |-> "updated", wrote |-> TRUE,
                manifest |-> [kind |-> "json",
                              value |-> AppendSong(ensured.data, title,
                                                   file_entry)]]

---------------------------------------------------------------------------
(* Inputs of update_manifest and initial contents of manifest.json.        *)

TitlePaths ==
    { <<"s", "/", "a", ".", "m">>,
      <<"t", "\\", "a", ".", "m">>,
      <<"b">> }

OutPaths ==
    { <<"a", ".", "d">>,
      <<"s", "/", "a", ".", "d">>,
      <<"s", "\\", "a", ".", "d">> }

InitTitles == { <<"a">>, <<"b">> }
InitFiles == { <<"a", ".", "d">>, <<"s", "/", "a", ".", "d">>,
               <<"s", "\\", "a", ".", "d">> }
InitEntries == {NewEntry(ti, f) : ti \in InitTitles, f \in InitFiles}

\* items that are not {title, file} objects
OddItems ==
    { [t |-> "other"],
      [t |-> "entry", keys |-> {"title"}, title |-> <<"a">>, file |-> <<>>] }

FilesOf(items) ==
    {items[k].file : k \in {j \in DOMAIN items :
                              items[j].t = "entry" /\ "file" \in items[j].keys}}

\* the number of items whose file is f
CountFile(items, f) ==
    Cardinality({k \in DOMAIN items :
                   /\ items[k].t = "entry"
                   /\ "file" \in items[k].keys
                   /\ items[k].file = f})

DupFree(items) == \A f \in FilesOf(items) : CountFile(items, f) = 1

Catalog(items) ==
    [kind |-> "json",
     value |-> [t |-> "object", hasSongs |-> TRUE,
                songs |-> [t |-> "list", items |-> items], extra |-> FALSE]]

\* manifest.json has the shape {"songs": [{title, file}, ...]}
WellShaped(m) ==
    /\ m.kind = "json"
    /\ m.value.t = "object"
    /\ m.value.hasSongs
    /\ m.value.songs.t = "list"
    /\ \A k \in DOMAIN m.value.songs.items :
           /\ m.value.songs.items[k].t = "entry"
           /\ m.value.songs.items[k].keys = {"title", "file"}

\* the songs of a well-shaped or absent manifest.json
Songs(m) == IF m.kind = "json" THEN m.value.songs.items ELSE <<>>

\* absent, empty or duplicate-free catalogs
CleanManifests ==
    {[kind |-> "absent"]}
      \cup {Catalog(items) : items \in
              {q \in SeqsUpTo(InitEntries, MaxInit) : DupFree(q)}}

\* every other content: unparsable, parsable but of another shape, or with
\* two entries for one file
CorruptManifests ==
    {[kind |-> "garbage"]}
      \cup {[kind |-> "json", value |-> [t |-> ty]] :
              ty \in {"scalar", "string", "array"}}
      \cup {[kind |-> "json",
             value |-> [t |-> "object", hasSongs |-> FALSE,
                        songs |-> [t |-> "scalar"], extra |-> e]] :
              e \in BOOLEAN}
      \cup {[kind |-> "json",
             value |-> [t |-> "object", hasSongs |-> TRUE,
                        songs |-> [t |-> ty], extra |-> FALSE]] :
              ty \in {"scalar", "string", "object"}}
      \cup {Catalog(items) : items \in
              {q \in SeqsUpTo(InitEntries \cup OddItems, MaxInit) :
                 \/ \E k \in DOMAIN q : q[k] \in OddItems
                 \/ ~DupFree(q)}}

EncIdle == pcm_samples = <<>> /\ EncFresh

\* one call update_manifest(input_title_path, output_path)
UpdateManifest ==
    /\ Len(calls) < MaxRuns
    /\ \E input_title_path \in TitlePaths, output_path \in OutPaths :
         LET title == Title(platform, input_title_path)
             file_entry == Normalize(output_path)
             r == Update(manifest, title, file_entry)
         IN  /\ manifest' = r.manifest
             /\ prev_manifest' = manifest
             /\ calls' = Append(calls, [title |-> title,
                                        file |-> file_entry,
                                        output_path |-> output_path,
                                        outcome |-> r.outcome,
                                        wrote |-> r.wrote])
    /\ UNCHANGED <<platform, notCatVars>>

InitCat ==
    /\ EncIdle
    /\ platform \in {"posix", "nt"}
    /\ manifest \in CleanManifests
    /\ prev_manifest = manifest
    /\ calls = <<>>
    /\ RestIdle

InitCatAny ==
    /\ EncIdle
    /\ platform \in {"posix", "nt"}
    /\ manifest \in CleanManifests \cup CorruptManifests
    /\ prev_manifest = manifest
    /\ calls = <<>>
    /\ RestIdle

NextCat == UpdateManifest

\* sequential runs from an absent, empty or duplicate-free catalog
SpecCat == InitCat /\ [][NextCat]_vars

\* sequential runs from any content of manifest.json
SpecCatAny == InitCatAny /\ [][NextCat]_vars

---------------------------------------------------------------------------
(* Claims about update_manifest.                                           *)

Last == calls[Len(calls)]

TitlesOf(items) ==
    {items[k].title : k \in {j \in DOMAIN items :
                               items[j].t = "entry" /\ "title" \in items[j].keys}}

\* C6 (SpecCat): after any sequence of sequential update_manifest calls
\* from an absent, empty or duplicate-free catalog, no two entries of the
\* persisted songs list share a file value; a call whose file is new is
\* not turned away because its title is already there, so entries with
\* equal titles and different files coexist.
C6_UniqueFiles ==
    /\ manifest.kind = "absent" \/ WellShaped(manifest)
    /\ DupFree(Songs(manifest))
    /\ (/\ calls # <<>>
        /\ Last.file \notin FilesOf(Songs(prev_manifest))
        /\ Last.title \in TitlesOf(Songs(prev_manifest)))
          => /\ Last.outcome = "updated"
             /\ \E j, k \in DOMAIN Songs(manifest) :
                  /\ j < k
                  /\ Songs(manifest)[j].title = Songs(manifest)[k].title
                  /\ Songs(manifest)[j].file # Songs(manifest)[k].file

\* C6 witness: two calls on an absent catalog appended two entries with one
\* title and two files.
C6_Witness ==
    /\ Len(calls) = 2
    /\ calls[1].outcome = "updated"
    /\ calls[2].outcome = "updated"
    /\ calls[1].title = calls[2].title
    /\ calls[1].file # calls[2].file
    /\ Len(Songs(manifest)) = 2
    /\ Songs(manifest)[1].title = Songs(manifest)[2].title
    /\ Songs(manifest)[1].file # Songs(manifest)[2].file

\* C7 (SpecCat): two calls in a row with the same output path, with the
\* same or another title, leave exactly one entry whose file is that path,
\* and the catalog as it was after the first of the two.
C7_UpsertIdempotent ==
    (/\ Len(calls) >= 2
     /\ Last.output_path = calls[Len(calls) - 1].output_path)
       => /\ manifest = prev_manifest
          /\ CountFile(Songs(manifest), Last.file) = 1
          /\ Len(Songs(manifest)) = Len(Songs(prev_manifest))

\* C7 witness: the first call appended the entry and the second, with the
\* same output path and another title, found it.
C7_Witness ==
    /\ Len(calls) = 2
    /\ calls[1].output_path = calls[2].output_path
    /\ calls[1].title # calls[2].title
    /\ calls[1].outcome = "updated"
    /\ calls[2].outcome = "already"
    /\ manifest = prev_manifest
    /\ CountFile(Songs(manifest), calls[2].file) = 1

\* C8 (SpecCat): when the catalog already holds an entry whose file is the
\* normalized output path, the call is a no-op: manifest.json is not
\* rewritten, its content (entries, order, titles) is unchanged, and the
\* call ends with the "already in manifest" message, not with an error.
C8_DuplicateNoOp ==
    (/\ calls # <<>>
     /\ Normalize(Last.output_path) \in FilesOf(Songs(prev_manifest)))
       => /\ ~Last.wrote
          /\ manifest = prev_manifest
          /\ Last.outcome = "already"

\* C8 witness: a call found its file in a two-entry catalog under another
\* title and left the file alone.
C8_Witness ==
    /\ calls # <<>>
    /\ Len(Songs(prev_manifest)) = 2
    /\ Songs(prev_manifest)[2].file = Last.file
    /\ Songs(prev_manifest)[2].title # Last.title
    /\ Last.outcome = "already"
    /\ ~Last.wrote
    /\ manifest = prev_manifest

\* C9 (SpecCat): when no entry with the normalized file exists, the call
\* appends exactly one entry {title, file} at the end of songs, leaves the
\* entries that were there unchanged and in order, and persists the full
\* catalog; no call grows songs by more than one entry.
C9_AppendOne ==
    /\ Len(Songs(manifest)) <= Len(Songs(prev_manifest)) + 1
    /\ (/\ calls # <<>>
        /\ Last.file \notin FilesOf(Songs(prev_manifest)))
          => /\ Last.outcome = "updated"
             /\ Last.wrote
             /\ WellShaped(manifest)
             /\ Songs(manifest) =
                  Append(Songs(prev_manifest),
                         NewEntry(Last.title, Normalize(Last.output_path)))

\* C9 witness: a call appended a third entry behind two that were there.
C9_Witness ==
    /\ calls # <<>>
    /\ Len(Songs(prev_manifest)) = 2
    /\ Last.outcome = "updated"
    /\ Len(Songs(manifest)) = 3
    /\ SubSeq(Songs(manifest), 1, 2) = Songs(prev_manifest)
    /\ Songs(manifest)[3].file = Last.file

\* C10 (SpecCatAny): loading the catalog never fails the run: when
\* manifest.json is absent, unparsable or parsable but not of the shape
\* {songs: [{title, file}, ...]}, update_manifest raises nothing, takes the
\* catalog as {songs: []} and appends and persists the new entry.
C10_LoadNeverFails ==
    (/\ calls # <<>>
     /\ ~WellShaped(prev_manifest))
       => /\ Last.outcome = "updated"
          /\ Last.wrote
          /\ manifest = Catalog(<<NewEntry(Last.title, Last.file)>>)

\* two paths that differ at most in the separator used
SameUpToSeparator(p, q) ==
    /\ Len(p) = Len(q)
    /\ \A k \in DOMAIN p :
         p[k] = q[k] \/ {p[k], q[k]} \subseteq {Sep, BackSlash}

HasBackSlash(p) == \E k \in DOMAIN p : p[k] = BackSlash

\* C11 (SpecCat): the catalog key is the forward-slash path: every entry a
\* call appends has a file without backslash, and two runs whose output
\* paths differ only in the separator are one track: they derive the same
\* key, the later one finds the entry, and the catalog holds one entry for
\* it.
C11_ForwardSlashKey ==
    /\ \A k \in DOMAIN calls :
          calls[k].outcome = "updated" =>
             /\ ~HasBackSlash(calls[k].file)
             /\ \E j \in DOMAIN Songs(manifest) :
                   Songs(manifest)[j] = NewEntry(calls[k].title, calls[k].file)
    /\ calls # <<>> /\ Last.outcome = "updated" =>
          ~HasBackSlash(Songs(manifest)[Len(Songs(manifest))].file)
    /\ \A j, k \in DOMAIN calls :
          (j < k /\ SameUpToSeparator(calls[j].output_path,
                                      calls[k].output_path))
            => /\ calls[j].file = calls[k].file
               /\ calls[k].outcome = "already"
               /\ CountFile(Songs(manifest), calls[k].file) = 1

\* C11 witness: a run with a backslash path appended the entry under the
\* forward-slash key and a run with the forward-slash path found it.
C11_Witness ==
    /\ Len(calls) = 2
    /\ HasBackSlash(calls[1].output_path)
    /\ ~HasBackSlash(calls[2].output_path)
    /\ SameUpToSeparator(calls[1].output_path, calls[2].output_path)
    /\ calls[1].outcome = "updated"
    /\ calls[2].outcome = "already"
    /\ Len(Songs(manifest)) = 1
    /\ ~HasBackSlash(Songs(manifest)[1].file)

---------------------------------------------------------------------------
(* process_file and convert_mp3_to_wav (convert_mp3.py lines 15-86).       *)
(*                                                                         *)
(* A temporary WAV file is [kind |-> "absent"], [kind |-> "broken"] (a     *)
(* file wave.open rejects, such as a partial output) or                    *)
(* [kind |-> "valid", frames |-> bytes].  An encoded file is               *)
(* [kind |-> "absent"], [kind |-> "partial"] (opened for writing, write    *)
(* not completed) or [kind |-> "bytes", data |-> bytes].                   *)

\* Python's // on integers rounds toward negative infinity, as \div does
TruncDiv(a, b) == IF a >= 0 THEN a \div b ELSE -((-a) \div b)
FloorDiv(a, b) == a \div b

\* struct.unpack_from('<h', frames, idx)[0], idx counted from 0
UnpackH(buf, idx) ==
    LET u == buf[idx + 1] + 256 * buf[idx + 2]
    IN  IF u >= 32768 THEN u - 65536 ELSE u

\* val // 256 (convert_mp3.py line 71, encode_song.py line 111)
Reduce16(val) == FloorDiv(val, 256)

\* convert_mp3.py lines 66-71
FramesToSamples(buf) ==
    [k \in 1..(Len(buf) \div 2) |-> Reduce16(UnpackH(buf, (k - 1) * 2))]

\* encode_dfpwm as a function of its argument: the loop body of lines 22-62
\* folded over the samples, then the flush of lines 64-65
EncStart ==
    [charge |-> 0, strength |-> 0, previous_bit |-> FALSE,
     out_bytes |-> <<>>, current_byte |-> 0, bit_idx |-> 0]

EncStep(st, sample) ==
    LET bit == Predict(sample, st.charge)
        s2 == ClampStrength(StrengthStep(st.strength, bit, st.previous_bit))
        c2 == ClampCharge(ApplyChange(st.charge, bit, Change(s2)))
        byte2 == PackBit(st.current_byte, bit, st.bit_idx)
        full == st.bit_idx + 1 = ByteBits
    IN  [charge |-> c2, strength |-> s2, previous_bit |-> bit,
         out_bytes |-> IF full THEN Append(st.out_bytes, byte2)
                       ELSE st.out_bytes,
         current_byte |-> IF full THEN 0 ELSE byte2,
         bit_idx |-> IF full THEN 0 ELSE st.bit_idx + 1]

RECURSIVE EncFold(_, _, _)
EncFold(st, samples, k) ==
    IF k > Len(samples) THEN st
    ELSE EncFold(EncStep(st, samples[k]), samples, k + 1)

EncodeDfpwm(samples) ==
    LET st == EncFold(EncStart, samples, 1)
    IN  Flush(st.out_bytes, st.current_byte, st.bit_idx)

Tracks ==
    { <<"s", "\\", "a", ".", "m">>,
      <<"b", ".", "m">> }

\* wav_path = mp3_path.rsplit('.', 1)[0] + ".temp.wav"
WavPath(mp3_path) == RSplitDotHead(mp3_path) \o <<".", "t", ".", "w">>

\* dfpwm_filename = mp3_filename.rsplit('.', 1)[0] + ".dfpwm"
DfpwmFilename(mp3_path) == RSplitDotHead(mp3_path) \o <<".", "d">>

WavPaths == {WavPath(f) : f \in Tracks}
DfpwmPaths == {DfpwmFilename(f) : f \in Tracks}

Absent == [kind |-> "absent"]
Broken == [kind |-> "broken"]

\* what ffmpeg leaves in the frames of a decoded file (s16, mono)
DecodedFrames ==
    { <<>>,
      <<0, 0>>,
      <<255, 255, 0, 128, 0, 100>> }

\* what the external decoder does when it is run (line 29):
\*   "missing"         no ffmpeg on the path: subprocess.run raises
\*                     FileNotFoundError, nothing is written
\*   "failed"          ffmpeg exits non-zero before creating its output
\*   "failed_partial"  ffmpeg exits non-zero after creating its output
\*   "ok"              ffmpeg exits 0 and has written its output
FfmpegOutcomes == {"missing", "failed", "failed_partial", "ok"}

\* convert_mp3_to_wav (lines 15-38): the value returned (<<>> for None) and
\* the temporary files afterwards; content is what ffmpeg wrote, if it did
ConvertMp3ToWav(mp3_path, how, content, files) ==
    LET wav_path == WavPath(mp3_path)
    IN  CASE how = "ok" ->
               [ret |-> wav_path, reason |-> "ok",
                wavs |-> [files EXCEPT ![wav_path] = content]]
          [] how = "failed_partial" ->
               [ret |-> <<>>, reason |-> "ffmpeg_failed",
                wavs |-> [files EXCEPT ![wav_path] = Broken]]
          [] how = "failed" ->
               [ret |-> <<>>, reason |-> "ffmpeg_failed", wavs |-> files]
          [] how = "missing" ->
               [ret |-> <<>>, reason |-> "no_ffmpeg", wavs |-> files]

\* lines 53-62: wave.open and readframes, then os.remove; on any exception
\* the message is printed, the file removed if it exists, and the call
\* returns
\* (ReadWavNoReturn: the except block without its return, so the call
\* goes on with the frames it has)
ReadWavNoReturn(wav_path, files) ==
    IF files[wav_path].kind = "valid"
      THEN [ok |-> TRUE, frames |-> files[wav_path].frames,
            wavs |-> [files EXCEPT ![wav_path] = Absent]]
      ELSE [ok |-> TRUE, frames |-> <<>>,
            wavs |-> [files EXCEPT ![wav_path] = Absent]]
ReadWav(wav_path, files) ==
    IF files[wav_path].kind = "valid"
      THEN [ok |-> TRUE, frames |-> files[wav_path].frames,
            wavs |-> [files EXCEPT ![wav_path] = Absent]]
      ELSE [ok |-> FALSE, frames |-> <<>>,
            wavs |-> [files EXCEPT ![wav_path] = Absent]]

\* the steps that follow the encoding (line 76), in the order the code
\* takes them: the file is saved (lines 79-83), then the manifest is
\* updated (line 86)
FinishingStepsManifestFirst == <<"manifest", "save">>
FinishingSteps == <<"save", "manifest">>

\* the position after finishing step x; "idle" when x was the last
StepAfter(x) ==
    IF x = FinishingSteps[1] THEN FinishingSteps[2] ELSE "idle"

\* how writing the encoded file goes (lines 80-81):
\*   "ok"            opened and written
\*   "open_failed"   open(..., 'wb') raises, no file is touched
\*   "write_failed"  the file is created or truncated, f.write raises
SaveOutcomes == {"ok", "open_failed", "write_failed"}

\* lines 41-45
ProcStart ==
    /\ ppc = "idle"
    /\ tracks_run < MaxTracks
    /\ \E f \in Tracks :
         /\ mp3_filename' = f
         /\ IF f \in present
              THEN ppc' = "convert" /\ result' = "running"
              ELSE ppc' = "idle" /\ result' = "not_found"
    /\ tracks_run' = tracks_run + 1
    /\ start_manifest' = manifest
    /\ start_dfpwms' = dfpwms
    /\ saved' = FALSE
    /\ decoded' = "none"
    /\ frames' = <<>>
    /\ dfpwm_data' = <<>>
    /\ UNCHANGED <<present, wavs, dfpwms, catVars, notProcCatVars>>

\* lines 48-50, with the call of convert_mp3_to_wav
ProcConvert ==
    /\ ppc = "convert"
    /\ \E how \in FfmpegOutcomes,
          content \in {Broken} \cup
                      {[kind |-> "valid", frames |-> fr] : fr \in DecodedFrames} :
         LET r == ConvertMp3ToWav(mp3_filename, how, content, wavs)
         IN  /\ wavs' = r.wavs
             /\ decoded' = IF how = "ok" /\ content.kind # "valid"
                             THEN "ok_unreadable" ELSE how
             /\ IF r.ret # <<>>
                  THEN ppc' = "read" /\ result' = result
                  ELSE ppc' = "idle" /\ result' = r.reason
    /\ UNCHANGED <<present, dfpwms, mp3_filename, frames, dfpwm_data, saved,
                   start_manifest, start_dfpwms, tracks_run, catVars, notProcCatVars>>

\* lines 53-62
ProcRead ==
    /\ ppc = "read"
    /\ LET r == ReadWav(WavPath(mp3_filename), wavs)
       IN  /\ wavs' = r.wavs
           /\ frames' = r.frames
           /\ IF r.ok THEN ppc' = "encode" /\ result' = result
              ELSE ppc' = "idle" /\ result' = "wav_unreadable"
    /\ UNCHANGED <<present, dfpwms, mp3_filename, decoded, dfpwm_data, saved,
                   start_manifest, start_dfpwms, tracks_run, catVars, notProcCatVars>>

\* lines 66-76
ProcEncode ==
    /\ ppc = "encode"
    /\ dfpwm_data' = EncodeDfpwm(FramesToSamples(frames))
    /\ ppc' = FinishingSteps[1]
    /\ UNCHANGED <<present, wavs, dfpwms, mp3_filename, decoded, frames, saved,
                   result, start_manifest, start_dfpwms, tracks_run, catVars,
                   notProcCatVars>>

\* lines 79-83
ProcSave ==
    /\ ppc = "save"
    /\ \E how \in SaveOutcomes :
         LET name == DfpwmFilename(mp3_filename)
         IN  CASE how = "ok" ->
                    /\ dfpwms' = [dfpwms EXCEPT ![name] =
                                    [kind |-> "bytes", data |-> dfpwm_data]]
                    /\ saved' = TRUE
                    /\ ppc' = StepAfter("save")
                    /\ result' = IF StepAfter("save") = "idle" THEN "done"
                                 ELSE result
               [] how = "open_failed" ->
                    /\ ppc' = "crashed"
                    /\ result' = "raised"
                    /\ UNCHANGED <<dfpwms, saved>>
               [] how = "write_failed" ->
                    /\ dfpwms' = [dfpwms EXCEPT ![name] = [kind |-> "partial"]]
                    /\ ppc' = "crashed"
                    /\ result' = "raised"
                    /\ UNCHANGED saved
    /\ UNCHANGED <<present, wavs, mp3_filename, decoded, frames, dfpwm_data,
                   start_manifest, start_dfpwms, tracks_run, catVars, notProcCatVars>>

\* line 86: update_manifest(mp3_filename, dfpwm_filename); an exception
\* that leaves update_manifest leaves process_file too
ProcManifest ==
    /\ ppc = "manifest"
    /\ LET title == Title(platform, mp3_filename)
           output_path == DfpwmFilename(mp3_filename)
           file_entry == Normalize(output_path)
           r == Update(manifest, title, file_entry)
       IN  /\ manifest' = r.manifest
           /\ prev_manifest' = manifest
           /\ calls' = Append(calls, [title |-> title,
                                      file |-> file_entry,
                                      output_path |-> output_path,
                                      outcome |-> r.outcome,
                                      wrote |-> r.wrote])
           /\ IF r.outcome = "raised"
                THEN ppc' = "crashed" /\ result' = "raised"
                ELSE /\ ppc' = StepAfter("manifest")
                     /\ result' = IF StepAfter("manifest") = "idle"
                                    THEN "done" ELSE result
    /\ UNCHANGED <<platform, present, wavs, dfpwms, mp3_filename, decoded,
                   frames, dfpwm_data, saved, start_manifest, start_dfpwms,
                   tracks_run, notProcCatVars>>

\* manifest.json before the first call: absent, empty, holding the entry of
\* one of the tracks, or not a catalog at all
ProcManifests ==
    {Absent, Catalog(<<>>), [kind |-> "garbage"],
     [kind |-> "json", value |-> [t |-> "array"]]}
      \cup {Catalog(<<NewEntry(<<"x">>, Normalize(DfpwmFilename(f)))>>) :
              f \in Tracks}

InitProc ==
    /\ EncIdle
    /\ platform \in {"posix", "nt"}
    /\ manifest \in ProcManifests
    /\ prev_manifest = manifest
    /\ calls = <<>>
    /\ present \in SUBSET Tracks
    /\ wavs = [w \in WavPaths |-> Absent]
    /\ dfpwms = [d \in DfpwmPaths |-> Absent]
    /\ mp3_filename = <<>>
    /\ ppc = "idle"
    /\ decoded = "none"
    /\ frames = <<>>
    /\ dfpwm_data = <<>>
    /\ saved = FALSE
    /\ result = "none"
    /\ start_manifest = manifest
    /\ start_dfpwms = dfpwms
    /\ tracks_run = 0
    /\ RaceIdle
    /\ MainIdle
    /\ CallIdle

NextProc ==
    \/ ProcStart
    \/ ProcConvert
    \/ ProcRead
    \/ ProcEncode
    \/ ProcSave
    \/ ProcManifest

\* a caller running process_file on one track after the other
SpecProc == InitProc /\ [][NextProc]_vars

---------------------------------------------------------------------------
(* Claims about process_file, checked under SpecProc.                      *)

\* the call that was started last cannot produce an encoded file: its input
\* is missing, the decoder is missing or failed, or its output is unreadable
TrackFailed ==
    /\ tracks_run > 0
    /\ \/ mp3_filename \notin present
       \/ decoded \in {"missing", "failed", "failed_partial", "ok_unreadable"}

\* C12: after process_file has returned, on the success path and on every
\* failure path, the temporary decoded WAV file of the call does not exist.
C12_TempWavRemoved ==
    (tracks_run > 0 /\ ppc = "idle")
       => wavs[WavPath(mp3_filename)].kind = "absent"

\* C13: when the input file is missing, the decode fails (no decoder, or
\* the decoder exits with an error) or the decoded WAV cannot be read, the
\* call returns without raising, writes no encoded file and leaves
\* manifest.json as it was, and the caller can go on to the next track.
C13_FailedTrackSkipped ==
    TrackFailed =>
       /\ ppc \in {"read", "idle"}
       /\ ppc = "idle" =>
             result \in {"not_found", "no_ffmpeg", "ffmpeg_failed",
                         "wav_unreadable"}
       /\ ~saved
       /\ dfpwms = start_dfpwms
       /\ manifest = start_manifest
       /\ (ppc = "idle" /\ tracks_run < MaxTracks) => ENABLED ProcStart

\* C13 witness: the call for one track returned on a failed decode (the
\* decoder's partial output is still there, no encoded file, no entry), and
\* the caller's next call, for the other track, has encoded and saved its
\* file.
C13_Witness ==
    /\ tracks_run = 2
    /\ ppc = "manifest"
    /\ saved
    /\ \E f \in Tracks \ {mp3_filename} :
          /\ f \in present
          /\ wavs[WavPath(f)].kind = "broken"
          /\ dfpwms[DfpwmFilename(f)].kind = "absent"
    /\ manifest = Absent

\* C20: the catalog is updated only after the encoded file has been
\* written: in every state, if the call has changed manifest.json then its
\* .dfpwm file holds the encoded bytes and the appended entry names it; a
\* call that failed before or while writing the file has added no entry.
C20_ManifestAfterSave ==
    /\ (tracks_run > 0 /\ manifest # start_manifest) =>
          /\ saved
          /\ dfpwms[DfpwmFilename(mp3_filename)] =
               [kind |-> "bytes", data |-> dfpwm_data]
          /\ manifest.kind = "json"
          /\ Songs(manifest) # <<>>
          /\ Songs(manifest)[Len(Songs(manifest))].file =
               Normalize(DfpwmFilename(mp3_filename))
    /\ (tracks_run > 0 /\ ~saved) => manifest = start_manifest

\* C20 witness: a call has saved its file and then appended its entry.
C20_Witness ==
    /\ tracks_run > 0
    /\ result = "done"
    /\ ppc = "idle"
    /\ saved
    /\ manifest # start_manifest
    /\ Len(Songs(manifest)) = Len(Songs(start_manifest)) + 1

---------------------------------------------------------------------------
(* Two update_manifest runs at once (two processes, one manifest.json).    *)
(*                                                                         *)
(* A run touches the file three times: it reads it (json.load, line 101),  *)
(* it opens it for writing, which empties it (line 123), and it writes     *)
(* and closes it (line 124).  Everything between is local to the run.  An  *)
(* emptied file is text json.load rejects.  When two runs have the file    *)
(* open for writing at once, each writes from offset 0 and the file ends   *)
(* as the later closer's text, followed by what is left of the other's if  *)
(* that was longer: the later closer's value, or text json.load rejects.   *)

Runs == {1, 2}
Other(r) == 3 - r

\* lines 110-121 on the local data: the scan and, when nothing matches, the
\* append
UpsertNoAppend(data, title, file_entry) ==
    [found |-> Scan(data.songs, file_entry), data |-> data]
Upsert(data, title, file_entry) ==
    LET found == Scan(data.songs, file_entry)
    IN  [found |-> found,
         data |-> IF found = "absent"
                    THEN AppendSong(data, title, file_entry) ELSE data]

RaceArgs ==
    [input_title_path : { <<"s", "/", "a", ".", "m">>, <<"b">> },
     output_path : OutPaths]

RaceManifests ==
    {Absent, Catalog(<<>>),
     Catalog(<<NewEntry(<<"x">>, <<"a", ".", "d">>)>>)}

RTitle(r) == Title(platform, rargs[r].input_title_path)
RFile(r) == Normalize(rargs[r].output_path)

\* lines 98-108: read manifest.json into the local data
RaceLoad(r) ==
    /\ rpc[r] = "load"
    /\ LET e == EnsureSongs(LoadManifest(manifest))
       IN  IF e.raised
             THEN /\ rpc' = [rpc EXCEPT ![r] = "done"]
                  /\ routcome' = [routcome EXCEPT ![r] = "raised"]
                  /\ rdata' = rdata
             ELSE /\ rpc' = [rpc EXCEPT ![r] = "open"]
                  /\ rdata' = [rdata EXCEPT ![r] = e.data]
                  /\ routcome' = routcome
    /\ rlog' = Append(rlog, <<r, "load">>)
    /\ UNCHANGED <<rargs, roverlap, race_start, catVars, notRaceCatVars>>

\* lines 110-123: scan the local data; when the file is there, report it
\* (line 127); otherwise append locally and open manifest.json for writing
RaceOpen(r) ==
    /\ rpc[r] = "open"
    /\ LET u == Upsert(rdata[r], RTitle(r), RFile(r))
       IN  CASE u.found = "raised" ->
                  /\ rpc' = [rpc EXCEPT ![r] = "done"]
                  /\ routcome' = [routcome EXCEPT ![r] = "raised"]
                  /\ UNCHANGED <<rdata, manifest, roverlap>>
             [] u.found = "found" ->
                  /\ rpc' = [rpc EXCEPT ![r] = "done"]
                  /\ routcome' = [routcome EXCEPT ![r] = "already"]
                  /\ UNCHANGED <<rdata, manifest, roverlap>>
             [] u.found = "absent" ->
                  /\ rpc' = [rpc EXCEPT ![r] = "dump"]
                  /\ rdata' = [rdata EXCEPT ![r] = u.data]
                  /\ manifest' = [kind |-> "garbage"]
                  /\ roverlap' = IF rpc[Other(r)] = "dump"
                                   THEN [q \in Runs |-> TRUE] ELSE roverlap
                  /\ routcome' = routcome
    /\ rlog' = Append(rlog, <<r, "open">>)
    /\ UNCHANGED <<rargs, race_start, platform, prev_manifest, calls,
                   notRaceCatVars>>

\* lines 124-125: json.dump(data, f), close, "Updated manifest.json"
RaceDump(r) ==
    /\ rpc[r] = "dump"
    /\ \E torn \in BOOLEAN :
         /\ torn => roverlap[r] /\ rpc[Other(r)] = "done"
         /\ manifest' = IF torn THEN [kind |-> "garbage"]
                        ELSE [kind |-> "json", value |-> rdata[r]]
    /\ rpc' = [rpc EXCEPT ![r] = "done"]
    /\ routcome' = [routcome EXCEPT ![r] = "updated"]
    /\ rlog' = Append(rlog, <<r, "dump">>)
    /\ UNCHANGED <<rargs, rdata, roverlap, race_start, platform,
                   prev_manifest, calls, notRaceCatVars>>

InitRace ==
    /\ EncIdle
    /\ ProcIdle
    /\ MainIdle
    /\ CallIdle
    /\ platform \in {"posix", "nt"}
    /\ manifest \in RaceManifests
    /\ prev_manifest = manifest
    /\ calls = <<>>
    /\ rargs \in [Runs -> RaceArgs]
    /\ rpc = [r \in Runs |-> "load"]
    /\ rdata = [r \in Runs |-> EmptyCatalog]
    /\ routcome = [r \in Runs |-> "none"]
    /\ roverlap = [r \in Runs |-> FALSE]
    /\ rlog = <<>>
    /\ race_start = manifest

NextRace ==
    \/ \E r \in Runs : RaceLoad(r)
    \/ \E r \in Runs : RaceOpen(r)
    \/ \E r \in Runs : RaceDump(r)

\* two runs in two processes, no lock on manifest.json
SpecRace == InitRace /\ [][NextRace]_vars

\* the place of a step in the log, 0 when it was not taken
LogPos(r, step) ==
    IF \E k \in DOMAIN rlog : rlog[k] = <<r, step>>
      THEN CHOOSE k \in DOMAIN rlog : rlog[k] = <<r, step>>
      ELSE 0

\* both runs have loaded before either opened the file for writing, and
\* run w wrote last, after the other run had closed the file
LostUpdateRace(w) ==
    /\ rpc = [r \in Runs |-> "done"]
    /\ RFile(1) # RFile(2)
    /\ \A r \in Runs : RFile(r) \notin FilesOf(Songs(race_start))
    /\ \A r, q \in Runs : LogPos(r, "load") < LogPos(q, "open")
    /\ LogPos(Other(w), "dump") < LogPos(w, "open")

\* C14: two runs for different output files against one catalog race, and
\* the last writer wins: whenever both runs load the catalog before either
\* persists, both report a successful update and the persisted catalog is
\* what was there before plus the entry of the run that wrote last, without
\* the entry of the other run.
C14_LastWriterWins ==
    \A w \in Runs :
       LostUpdateRace(w) =>
          /\ routcome = [r \in Runs |-> "updated"]
          /\ manifest = Catalog(Append(Songs(race_start),
                                       NewEntry(RTitle(w), RFile(w))))
          /\ CountFile(Songs(manifest), RFile(w)) = 1
          /\ CountFile(Songs(manifest), RFile(Other(w))) = 0

\* C14 witness: the interleaving happens: both runs loaded an empty
\* catalog, run 1 wrote, then run 2 wrote; both ended "updated" and only
\* the entry of run 2 is in manifest.json.
C14_Witness ==
    /\ LostUpdateRace(2)
    /\ race_start = Catalog(<<>>)
    /\ rlog = << <<1, "load">>, <<2, "load">>, <<1, "open">>, <<1, "dump">>,
                 <<2, "open">>, <<2, "dump">> >>
    /\ routcome = [r \in Runs |-> "updated"]
    /\ Len(Songs(manifest)) = 1
    /\ Songs(manifest)[1].file = RFile(2)

---------------------------------------------------------------------------
(* encode_song.main, lines 89-135: the audio data of the WAV file become   *)
(* one Sample per frame (lines 97-122), and the samples are resampled to   *)
(* target_rate (lines 124-135).                                            *)

\* most samples (frames times channels) of a WAV file drawn with any
\* parameters
MaxWords == 4
\* most frames of a mono 8-bit WAV file drawn with any rates
MaxLen == 3

\* get_sample(idx) reads at i + ch * sampwidth (line 120; line 117 for
\* channel 0)
ChannelOffsetNoWidth(pos, ch, sw) == pos + ch
ChannelOffset(pos, ch, sw) == pos + ch * sw

\* get_sample, lines 102-112
GetSampleUnsigned(sw, buf, idx) ==
    IF sw = 1 THEN buf[idx + 1]
    ELSE IF sw = 2 THEN FloorDiv(UnpackH(buf, idx), 256)
    ELSE 0
GetSample(sw, buf, idx) ==
    IF sw = 1 THEN buf[idx + 1] - 128
    ELSE IF sw = 2 THEN FloorDiv(UnpackH(buf, idx), 256)
    ELSE 0

\* lines 117-120: the sum of the channels of the frame at pos
RECURSIVE ChannelSum(_, _, _, _, _)
ChannelSum(sw, nch, buf, pos, ch) ==
    IF ch >= nch THEN 0
    ELSE GetSample(sw, buf, ChannelOffset(pos, ch, sw))
           + ChannelSum(sw, nch, buf, pos, ch + 1)

\* val //= nchannels (line 121)
AverageTowardZero(sum, nch) == TruncDiv(sum, nch)
Average(sum, nch) == FloorDiv(sum, nch)

\* lines 117-121: the value appended for the frame at pos
FrameValue(sw, nch, buf, pos) ==
    IF nch > 1 THEN Average(ChannelSum(sw, nch, buf, pos, 0), nch)
    ELSE GetSample(sw, buf, pos)

\* lines 114-122 as a function of the WAV parameters and data
ExtractSamples(sw, nch, buf) ==
    [k \in 1..(Len(buf) \div (sw * nch)) |->
        FrameValue(sw, nch, buf, (k - 1) * sw * nch)]

\* the bytes of one sample of each width
Bytes8 == { <<0>>, <<127>>, <<128>>, <<255>> }
Bytes16 == { <<0, 128>>, <<255, 255>>, <<255, 0>>, <<255, 127>> }
Bytes24 == { <<0, 0, 0>>, <<255, 255, 127>> }
SampleBytes(sw) == IF sw = 1 THEN Bytes8 ELSE IF sw = 2 THEN Bytes16
                   ELSE Bytes24

RECURSIVE Flatten(_)
Flatten(ss) == IF ss = <<>> THEN <<>> ELSE Head(ss) \o Flatten(Tail(ss))

\* the audio data of nframes frames of nch channels of width sw
WavData(sw, nch, nframes) ==
    {Flatten(ws) : ws \in [1..(nframes * nch) -> SampleBytes(sw)]}

FrameRates == {8000, 44100, 48000, 96000}
TargetRates == {8000, 48000}

---------------------------------------------------------------------------
(* The floats of the resampler.  A Python float is an IEEE 754 binary64:   *)
(* 53 significant bits, results rounded to nearest, ties to even.  The     *)
(* floats of lines 129-134 are never negative and stay small, so a float   *)
(* is held as its binary expansion in limbs of 16 bits, most significant   *)
(* first: one limb before the point and four after it.                     *)

Mantissa == 53
LimbBits == 16
Limbs == 5
Base == Pow2(LimbBits)
TotalBits == Limbs * LimbBits

\* 0.0 (line 131)
FZero == [k \in 1..Limbs |-> 0]

\* exact sum of two expansions
RECURSIVE LimbCarry(_, _, _)
LimbCarry(a, b, k) ==
    IF k > Limbs THEN 0 ELSE (a[k] + b[k] + LimbCarry(a, b, k + 1)) \div Base
FixAdd(a, b) ==
    [k \in 1..Limbs |-> (a[k] + b[k] + LimbCarry(a, b, k + 1)) % Base]

\* the bit at place p, places counted from 1 at the most significant
BitOf(x, p) ==
    (x[(p - 1) \div LimbBits + 1]
        \div Pow2(LimbBits - 1 - ((p - 1) % LimbBits))) % 2

\* number of bits of n > 0
BitLen(n) == CHOOSE w \in 1..LimbBits : Pow2(w - 1) <= n /\ n < Pow2(w)

\* place of the leading one, 0 for zero
Lead(x) ==
    IF \A k \in 1..Limbs : x[k] = 0 THEN 0
    ELSE LET m == CHOOSE k \in 1..Limbs :
                     x[k] # 0 /\ \A j \in 1..(k - 1) : x[j] = 0
         IN  LimbBits * m - BitLen(x[m]) + 1

\* x with the bits after place last cleared
KeepTo(x, last) ==
    [k \in 1..Limbs |->
        IF last >= LimbBits * k THEN x[k]
        ELSE IF last <= LimbBits * (k - 1) THEN 0
        ELSE (x[k] \div Pow2(LimbBits * k - last)) * Pow2(LimbBits * k - last)]

\* one unit in place last
Ulp(last) ==
    [k \in 1..Limbs |->
        IF (last - 1) \div LimbBits + 1 = k
          THEN Pow2(LimbBits - 1 - ((last - 1) % LimbBits)) ELSE 0]

\* round an exact value to 53 significant bits, nearest, ties to even;
\* sticky says that the exact value has more ones beyond the expansion
RoundDouble(x, sticky) ==
    LET lead == Lead(x)
        last == lead + Mantissa - 1
    IN  IF lead = 0 \/ last >= TotalBits THEN x
        ELSE LET guard == BitOf(x, last + 1)
                 rest == sticky \/ KeepTo(x, last + 1) # x
             IN  IF guard = 1 /\ (rest \/ BitOf(x, last) = 1)
                   THEN FixAdd(KeepTo(x, last), Ulp(last))
                   ELSE KeepTo(x, last)

\* a + b on floats (line 134)
FloatAdd(a, b) == RoundDouble(FixAdd(a, b), FALSE)

\* a / b on ints (line 129): the correctly rounded quotient, by long
\* division in base 256
RECURSIVE DivRem(_, _, _)
DivRem(a, b, k) == IF k = 0 THEN a % b ELSE (256 * DivRem(a, b, k - 1)) % b
DivDigit(a, b, k) == (256 * DivRem(a, b, k - 1)) \div b
TrueDiv(a, b) ==
    RoundDouble([k \in 1..Limbs |->
                    IF k = 1 THEN a \div b
                    ELSE 256 * DivDigit(a, b, 2 * k - 3)
                           + DivDigit(a, b, 2 * k - 2)],
                DivRem(a, b, 2 * (Limbs - 1)) # 0)

\* int(idx) (line 133)
IntPart(x) == x[1]

---------------------------------------------------------------------------
(* main as a state machine                                                 *)

\* lines 115-122, one iteration of the frame loop
MainFrame ==
    /\ mpc = "frames"
    /\ frame_i < Len(wav_frames)
    /\ main_samples' = Append(main_samples,
                              FrameValue(sampwidth, nchannels, wav_frames,
                                         frame_i))
    /\ frame_i' = frame_i + sampwidth * nchannels
    /\ UNCHANGED <<nchannels, sampwidth, framerate, wav_frames, target_rate,
                   ratio, res_idx, new_samples, mpc, notMainVars>>

\* line 115, the range is exhausted
MainFramesDone ==
    /\ mpc = "frames"
    /\ frame_i >= Len(wav_frames)
    /\ mpc' = "resample"
    /\ UNCHANGED <<nchannels, sampwidth, framerate, wav_frames, frame_i,
                   main_samples, target_rate, ratio, res_idx, new_samples,
                   notMainVars>>

\* lines 127-131
MainResampleTest ==
    /\ mpc = "resample"
    /\ IF target_rate # framerate
         THEN /\ ratio' = TrueDiv(framerate, target_rate)
              /\ new_samples' = <<>>
              /\ res_idx' = FZero
              /\ mpc' = "while"
         ELSE /\ mpc' = "encode"
              /\ UNCHANGED <<ratio, new_samples, res_idx>>
    /\ UNCHANGED <<nchannels, sampwidth, framerate, wav_frames, frame_i,
                   main_samples, target_rate, notMainVars>>

\* lines 132-134, one iteration of the while loop
MainResampleStep ==
    /\ mpc = "while"
    /\ IntPart(res_idx) < Len(main_samples)
    /\ new_samples' = Append(new_samples, main_samples[IntPart(res_idx) + 1])
    /\ res_idx' = FloatAdd(res_idx, ratio)
    /\ UNCHANGED <<nchannels, sampwidth, framerate, wav_frames, frame_i,
                   main_samples, target_rate, ratio, mpc, notMainVars>>

\* line 132 false, line 135
MainResampleDone ==
    /\ mpc = "while"
    /\ ~(IntPart(res_idx) < Len(main_samples))
    /\ main_samples' = new_samples
    /\ mpc' = "encode"
    /\ UNCHANGED <<nchannels, sampwidth, framerate, wav_frames, frame_i,
                   target_rate, ratio, res_idx, new_samples, notMainVars>>

\* lines 89-98: the WAV file is read, samples = []
MainStart ==
    /\ frame_i = 0
    /\ main_samples = <<>>
    /\ ratio = <<>>
    /\ res_idx = <<>>
    /\ new_samples = <<>>
    /\ mpc = "frames"

\* a WAV file of any width and channel count, encoded at its own rate
InitMainWavs ==
    /\ sampwidth \in 1..3
    /\ nchannels \in 1..3
    /\ \E nframes \in 0..(MaxWords \div nchannels) :
          wav_frames \in WavData(sampwidth, nchannels, nframes)
    /\ framerate = 48000
    /\ target_rate = framerate

\* a mono 8-bit WAV file of any rate, encoded at any rate
InitMainRates ==
    /\ sampwidth = 1
    /\ nchannels = 1
    /\ \E nframes \in 0..MaxLen : wav_frames \in WavData(1, 1, nframes)
    /\ framerate \in FrameRates
    /\ target_rate \in TargetRates

InitMain ==
    /\ EncIdle
    /\ CatIdle
    /\ ProcIdle
    /\ RaceIdle
    /\ CallIdle
    /\ MainStart
    /\ (InitMainWavs \/ InitMainRates)

NextMain ==
    \/ MainFrame
    \/ MainFramesDone
    \/ MainResampleTest
    \/ MainResampleStep
    \/ MainResampleDone

SpecMain == InitMain /\ [][NextMain]_vars

---------------------------------------------------------------------------
(* Claims about main                                                       *)

\* the samples of the WAV file before resampling
MainInput == ExtractSamples(sampwidth, nchannels, wav_frames)

Extracted == mpc \in {"frames", "resample", "while"}

\* where frame k (counted from 1) starts in wav_frames
FramePos(k) == (k - 1) * sampwidth * nchannels

\* the bytes of channel ch of every frame, in order
ChannelData(buf, sw, nch, ch) ==
    Flatten([k \in 1..(Len(buf) \div (sw * nch)) |->
                SubSeq(buf, (k - 1) * sw * nch + ch * sw + 1,
                            (k - 1) * sw * nch + ch * sw + sw)])

\* C16: downmix symmetry: for 8-bit and 16-bit samples, a stereo input
\* whose two channels are identical gives, frame by frame, the samples of
\* the mono input that consists of that channel alone.
C16_DownmixSymmetry ==
    ( /\ Extracted
      /\ sampwidth \in {1, 2}
      /\ nchannels = 2
      /\ ChannelData(wav_frames, sampwidth, 2, 0)
           = ChannelData(wav_frames, sampwidth, 2, 1) )
    => \A k \in DOMAIN main_samples :
          main_samples[k]
            = ExtractSamples(sampwidth, 1,
                             ChannelData(wav_frames, sampwidth, 2, 0))[k]

\* C16 witness: a 16-bit stereo file of two frames, both channels -1 in the
\* first and -32768 in the second, has been extracted to <<-1, -128>>.
C16_Witness ==
    /\ mpc = "resample"
    /\ sampwidth = 2
    /\ nchannels = 2
    /\ wav_frames = <<255, 255, 255, 255, 0, 128, 0, 128>>
    /\ main_samples = <<-1, -128>>
    /\ ExtractSamples(2, 1, <<255, 255, 0, 128>>) = <<-1, -128>>

\* q is v divided by d, rounded toward negative infinity
IsFloor(q, v, d) == d * q <= v /\ v < d * (q + 1)

\* C17: every Sample the extraction produces is in [-128, 127], whatever
\* the channel count and the data: a 16-bit signed v gives floor(v / 256)
\* (-1 gives -1, -32768 gives -128), an 8-bit unsigned b gives b - 128, and
\* the average over the channels stays in range; process_file reduces
\* 16-bit data by the same rule as main.
C17_SampleRange ==
    /\ \A k \in DOMAIN main_samples : main_samples[k] \in -128..127
    /\ \A k \in DOMAIN new_samples : new_samples[k] \in -128..127
    /\ (Extracted /\ nchannels = 1 /\ sampwidth = 2) =>
          /\ \A k \in DOMAIN main_samples :
                IsFloor(main_samples[k], UnpackH(wav_frames, FramePos(k)), 256)
          /\ \A k \in DOMAIN main_samples :
                main_samples[k] = FramesToSamples(wav_frames)[k]
    /\ (Extracted /\ nchannels = 1 /\ sampwidth = 1) =>
          \A k \in DOMAIN main_samples :
             main_samples[k] = wav_frames[FramePos(k) + 1] - 128
    /\ \A k \in DOMAIN FramesToSamples(wav_frames) :
          FramesToSamples(wav_frames)[k] \in -128..127

\* C17 witness: a 16-bit mono file with the values -1, -32768 and 32767 has
\* been extracted to <<-1, -128, 127>>, as process_file does.
C17_Witness ==
    /\ mpc = "resample"
    /\ sampwidth = 2
    /\ nchannels = 1
    /\ wav_frames = <<255, 255, 0, 128, 255, 127>>
    /\ main_samples = <<-1, -128, 127>>
    /\ FramesToSamples(wav_frames) = <<-1, -128, 127>>

\* C19 as stated: the 16-bit to 8-bit reduction and the averaging over the
\* channels both truncate toward zero: -1 reduces to 0, and a negative
\* channel sum that the channel count does not divide averages to the
\* quotient rounded toward zero.
C19_TruncateTowardZero ==
    /\ (Extracted /\ nchannels = 1 /\ sampwidth = 2) =>
          \A k \in DOMAIN main_samples :
             /\ main_samples[k]
                  = TruncDiv(UnpackH(wav_frames, FramePos(k)), 256)
             /\ FramesToSamples(wav_frames)[k]
                  = TruncDiv(UnpackH(wav_frames, (k - 1) * 2), 256)
    /\ (Extracted /\ nchannels > 1) =>
          \A k \in DOMAIN main_samples :
             main_samples[k]
               = TruncDiv(ChannelSum(sampwidth, nchannels, wav_frames,
                                     FramePos(k), 0), nchannels)

\* C19 amended: the 16-bit to 8-bit reduction and the averaging over the
\* channels both round toward negative infinity: -1 reduces to -1, and a
\* negative channel sum that the channel count does not divide averages to
\* the quotient rounded down.
C19_RoundTowardNegInf ==
    /\ (Extracted /\ nchannels = 1 /\ sampwidth = 2) =>
          \A k \in DOMAIN main_samples :
             /\ IsFloor(main_samples[k],
                        UnpackH(wav_frames, FramePos(k)), 256)
             /\ IsFloor(FramesToSamples(wav_frames)[k],
                        UnpackH(wav_frames, (k - 1) * 2), 256)
    /\ (Extracted /\ nchannels > 1) =>
          \A k \in DOMAIN main_samples :
             IsFloor(main_samples[k],
                     ChannelSum(sampwidth, nchannels, wav_frames,
                                FramePos(k), 0),
                     nchannels)

\* C19 witness: a 16-bit stereo frame with -1 on the left and 255 on the
\* right: the channels reduce to -1 and 0, the sum is -1, and the sample is
\* -1, where truncation toward zero would give 0.
C19_Witness ==
    /\ mpc = "resample"
    /\ sampwidth = 2
    /\ nchannels = 2
    /\ wav_frames = <<255, 255, 255, 0>>
    /\ ChannelSum(2, 2, wav_frames, 0, 0) = -1
    /\ main_samples = <<-1>>

---------------------------------------------------------------------------
(* Successive encode_dfpwm calls in one process, as convert_mp3.py makes   *)
(* them, one per track (process_file line 76).                             *)

\* most calls in one process
MaxCalls == 2
\* longest argument of a call
MaxCallLen == 2

CallVals == {-100, 100}
CallInputs == SeqsUpTo(CallVals, MaxCallLen)

\* lines 14-20: the locals of a call, whatever an earlier call left
LocalsCarriedOver(left) == left
LocalsAtEntry(left) ==
    [charge |-> 0, strength |-> 0, previous_bit |-> FALSE,
     out_bytes |-> <<>>, current_byte |-> 0, bit_idx |-> 0]

\* the next call: the finished one is logged, the locals are set by lines
\* 14-20
EncodeCall ==
    /\ pc = "done"
    /\ Len(enc_log) + 1 < MaxCalls
    /\ enc_log' = Append(enc_log,
                         [input |-> pcm_samples, output |-> out_bytes])
    /\ pcm_samples' \in CallInputs
    /\ LET st == LocalsAtEntry([charge |-> charge, strength |-> strength,
                                previous_bit |-> previous_bit,
                                out_bytes |-> out_bytes,
                                current_byte |-> current_byte,
                                bit_idx |-> bit_idx])
       IN  /\ charge' = st.charge
           /\ strength' = st.strength
           /\ previous_bit' = st.previous_bit
           /\ out_bytes' = st.out_bytes
           /\ current_byte' = st.current_byte
           /\ bit_idx' = st.bit_idx
    /\ i' = 0
    /\ emitted' = <<>>
    /\ pc' = "loop"
    /\ UNCHANGED notEncCallVars

InitCalls ==
    /\ pcm_samples \in CallInputs
    /\ EncFresh
    /\ CatIdle
    /\ RestIdle

NextCalls ==
    \/ EncodeSample
    \/ EncodeReturn
    \/ EncodeCall

SpecCalls == InitCalls /\ [][NextCalls]_vars

\* the calls that have returned
Returned ==
    IF pc = "done"
      THEN Append(enc_log, [input |-> pcm_samples, output |-> out_bytes])
      ELSE enc_log

\* C18: determinism: encoding the same sample sequence twice gives the same
\* bytes, and a call starts from charge 0, strength 0, previous_bit False,
\* an empty output, an empty partial byte and bit cursor 0, whatever the
\* call before it left.
C18_Determinism ==
    /\ \A a, b \in DOMAIN Returned :
          Returned[a].input = Returned[b].input
             => Returned[a].output = Returned[b].output
    /\ \A a \in DOMAIN Returned :
          Returned[a].output = EncodeDfpwm(Returned[a].input)
    /\ (pc = "loop" /\ i = 0) =>
          /\ charge = 0
          /\ strength = 0
          /\ previous_bit = FALSE
          /\ out_bytes = <<>>
          /\ current_byte = 0
          /\ bit_idx = 0

\* C18 witness: <<100, 100>> has been encoded twice in a row, the first
\* call ended with charge, strength and a partial byte that are not the
\* initial ones, and both calls returned the same single byte.
C18_Witness ==
    /\ pc = "done"
    /\ Len(enc_log) = 1
    /\ pcm_samples = <<100, 100>>
    /\ enc_log[1].input = pcm_samples
    /\ enc_log[1].output = out_bytes
    /\ Len(out_bytes) = 1
    /\ charge # 0
    /\ bit_idx # 0

=============================================================================
